---- MODULE Spec2Model ----
(***************************************************************************)
(* State-machine model of src/keras_classes.py: the Connected dense layer  *)
(* with trimmer masks, the EqlLayer and DivLayer built on it, and the      *)
(* EnergyConsReg regularizer.                                              *)
(*                                                                         *)
(* Tensors are sequences (a matrix is a sequence of rows, 1-based; the     *)
(* 0-based column c of the source is index c+1 here).  Finite float values *)
(* are modelled by integers with exact arithmetic, in units of 1e-10 where *)
(* the division layer's epsilon matters; a quotient is kept as a pair      *)
(* <<numerator, denominator>>.                                             *)
(***************************************************************************)
EXTENDS Integers, Sequences, FiniteSets, TLC

\* self:      the object (a layer or the regularizer) with its fields
\* args:      the width its constructor was called with
\* x, linOutput, output, losses, status: the input, the linear output, the
\*            returned tensor, the losses registered and the outcome of the
\*            last call ("none" when the last operation was no call)
\* lastOp:    the last operation performed on the object
\* stale:     the entries whose trimmer was written since the constraints
\*            last ran
VARIABLES self, args, x, linOutput, output, losses, status, lastOp, stale

vars == <<self, args, x, linOutput, output, losses, status, lastOp, stale>>

(***************************************************************************)
(* Bounds                                                                  *)
(***************************************************************************)
MaxVal == 1
MaxBatch == 2

ParamVals == -MaxVal..MaxVal
DivKernelVals == {-1, 0, 1}
InputVals == {-1, 0, 2}
MaskVals == {0, 1}
DenseInputWidths == {2}
DenseOutputShapes == {1}
HeadInputWidths == {1}
Regularizations == {0, 1}
Thresholds == {-1, 0, 1}
DivOutputShapes == {1, 2}
NodeInfos == {<<1, 0>>, <<0, 1>>, <<1, 1>>, <<2, 0>>, <<2, 1>>}
HypSets == {<<>>, <<"identity">>, <<"identity", "sin">>, <<"sin", "square">>}
AssignVals == -3..2
EnergyFuncs == {"total", "kinetic"}
Coefs == {-1, 0, 2}
RegStateWidths == {2}
Energies == {0, 1}

(***************************************************************************)
(* Tensor helpers (the TensorFlow operations the source calls)             *)
(***************************************************************************)
RECURSIVE SumSeq(_)
SumSeq(s) == IF s = <<>> THEN 0 ELSE Head(s) + SumSeq(Tail(s))

Abs(v) == IF v < 0 THEN -v ELSE v

Max(a, c) == IF a >= c THEN a ELSE c

ReduceSum(m) == SumSeq([r \in 1..Len(m) |-> SumSeq(m[r])])

Matrices(rows, cols, vals) == [1..rows -> [1..cols -> vals]]

Vectors(n, vals) == [1..n -> vals]

OnesLike(m) == [i \in 1..Len(m) |-> [j \in 1..Len(m[i]) |-> 1]]

OnesLikeVec(v) == [j \in 1..Len(v) |-> 1]

MatMul(a, w, cols) ==
    [r \in 1..Len(a) |->
        [j \in 1..cols |-> SumSeq([i \in 1..Len(w) |-> a[r][i] * w[i][j]])]]

Batches(width, sizes) == UNION {Matrices(n, width, InputVals) : n \in sizes}

(***************************************************************************)
(* Connected: construction, build, constraints, call                       *)
(***************************************************************************)
NoObject ==
    [cls |-> "None", outputShape |-> 0, regularization |-> 0,
     W |-> <<>>, Wtrimmer |-> <<>>, b |-> <<>>, btrimmer |-> <<>>,
     nodeInfo |-> <<0, 0>>, hypSet |-> <<>>, unaryFunc |-> <<>>,
     threshold |-> 0, loss |-> "None",
     energyFunc |-> "None", energy |-> 0, coef |-> 0]

NoArgs == [outputShape |-> 0]

\* Connected.__init__: stores the output width and the regularization scalar.
ConnectedInit(obj, outputShape, regularization) ==
    [obj EXCEPT !.outputShape = outputShape,
                !.regularization = regularization]

\* bias_initializer defaults to Zeros.
Zeros(n) == [j \in 1..n |-> 0]

\* Connected.build: kernel from the initializer, bias zeros, both trimmers
\* all ones.
ConnectedBuild(obj, kernel) ==
    LET bias == Zeros(obj.outputShape)
    IN [obj EXCEPT !.W = kernel, !.Wtrimmer = OnesLike(kernel),
                   !.b = bias, !.btrimmer = OnesLikeVec(bias)]

\* A kernel_initializer may produce any values of the weight's shape.
Kernels(inputWidth, obj, vals) == Matrices(inputWidth, obj.outputShape, vals)

\* Faulty variant: the trimmer added instead of multiplied.
WconstraintAdded(w) ==
    [i \in 1..Len(w) |-> [j \in 1..Len(w[i]) |-> w[i][j] + self.Wtrimmer[i][j]]]

\* Connected.Wconstraint: w * self.Wtrimmer, elementwise.
Wconstraint(w) ==
    [i \in 1..Len(w) |-> [j \in 1..Len(w[i]) |-> w[i][j] * self.Wtrimmer[i][j]]]

\* Faulty variant: the bias returned without its trimmer applied.
bconstraintSkipped(v) == v

\* Connected.bconstraint: b * self.btrimmer, elementwise.
bconstraint(v) == [j \in 1..Len(v) |-> v[j] * self.btrimmer[j]]

\* Faulty variant: the bias left out of the affine output.
ConnectedOutputNoBias(xx) == MatMul(xx, self.W, self.outputShape)

\* The affine output of Connected.call: tf.matmul(x, self.W) + self.b.
ConnectedOutput(xx) ==
    [r \in 1..Len(xx) |->
        [j \in 1..self.outputShape |->
            MatMul(xx, self.W, self.outputShape)[r][j] + self.b[j]]]

\* The L1 loss Connected.call registers with add_loss.
RegularizationLoss ==
    self.regularization
        * (ReduceSum([i \in 1..Len(self.W) |->
                         [j \in 1..Len(self.W[i]) |-> Abs(self.W[i][j])]])
           + SumSeq([j \in 1..Len(self.b) |-> Abs(self.b[j])]))

\* Connected.call as a whole: the output and the losses it registers.
ConnectedCall(xx) ==
    [linOutput |-> ConnectedOutput(xx), output |-> ConnectedOutput(xx),
     losses |-> <<RegularizationLoss>>, status |-> "ok"]

\* Every weight and bias entry: <<"W", i, j>> and <<"b", 0, j>>.
Entries ==
    {<<"W", i, j>> : i \in 1..Len(self.W), j \in 1..self.outputShape}
        \cup {<<"b", 0, j>> : j \in 1..self.outputShape}

Param(e) == IF e[1] = "W" THEN self.W[e[2]][e[3]] ELSE self.b[e[3]]

Mask(e) == IF e[1] = "W" THEN self.Wtrimmer[e[2]][e[3]] ELSE self.btrimmer[e[3]]

NoCall ==
    /\ x' = <<>>
    /\ linOutput' = <<>>
    /\ output' = <<>>
    /\ losses' = <<>>
    /\ status' = "none"

\* One parameter-update cycle: the optimizer assigns any new values to the
\* trainable W and b, then the constraints registered in build are applied.
UpdateCycle ==
    /\ \E newW \in Matrices(Len(self.W), self.outputShape, ParamVals),
          newb \in Vectors(self.outputShape, ParamVals) :
          self' = [self EXCEPT !.W = Wconstraint(newW), !.b = bconstraint(newb)]
    /\ stale' = {}
    /\ lastOp' = "update"
    /\ NoCall
    /\ UNCHANGED args

\* The pruning driver writes one entry of a trimmer variable (0 or 1).
SetMask ==
    /\ \E e \in Entries, m \in MaskVals :
          /\ self' = IF e[1] = "W"
                     THEN [self EXCEPT !.Wtrimmer[e[2]][e[3]] = m]
                     ELSE [self EXCEPT !.btrimmer[e[3]] = m]
          /\ stale' = stale \cup {e}
    /\ lastOp' = "prune"
    /\ NoCall
    /\ UNCHANGED args

\* A forward pass of a Connected layer on a batch of one row.
ConnectedForward ==
    /\ \E xx \in Batches(Len(self.W), {1}) :
          \E res \in {ConnectedCall(xx)} :
             /\ x' = xx
             /\ linOutput' = res.linOutput
             /\ output' = res.output
             /\ losses' = res.losses
             /\ status' = res.status
    /\ lastOp' = "call"
    /\ UNCHANGED <<self, args, stale>>

InitDense ==
    /\ \E o \in DenseOutputShapes, reg \in Regularizations, w \in DenseInputWidths :
          LET obj == ConnectedInit([NoObject EXCEPT !.cls = "Connected"], o, reg)
          IN /\ \E kernel \in Kernels(w, obj, ParamVals) :
                   self = ConnectedBuild(obj, kernel)
             /\ args = [outputShape |-> o]
    /\ x = <<>>
    /\ linOutput = <<>>
    /\ output = <<>>
    /\ losses = <<>>
    /\ status = "none"
    /\ lastOp = "build"
    /\ stale = {}

NextDense == UpdateCycle \/ SetMask \/ ConnectedForward

SpecDense == InitDense /\ [][NextDense]_vars

(***************************************************************************)
(* Claims about the Connected layer                                        *)
(***************************************************************************)
\* The masked affine formula x.(W o Wmask) + (b o bmask).
MaskedAffine(xx) ==
    [r \in 1..Len(xx) |->
        [j \in 1..self.outputShape |->
            SumSeq([i \in 1..Len(self.W) |->
                       xx[r][i] * (self.W[i][j] * self.Wtrimmer[i][j])])
            + self.b[j] * self.btrimmer[j]]]

\* C1: every weight or bias entry whose trimmer value is 0 and has seen the
\* constraint run since that value was written holds exactly 0, in every
\* state after any number of update cycles and forward passes.
PrunedStaysZero ==
    \A e \in Entries : (Mask(e) = 0 /\ e \notin stale) => Param(e) = 0

\* C1 witness: an update cycle has just run on a layer with a pruned weight
\* entry and an unpruned one that the optimizer moved away from 0.
PrunedStaysZeroWitness ==
    /\ lastOp = "update"
    /\ \E e \in Entries : e[1] = "W" /\ Mask(e) = 0 /\ Param(e) = 0
    /\ \E e \in Entries : Mask(e) = 1 /\ Param(e) # 0

\* C2 as stated: every forward pass, wherever it falls among mask writes and
\* update cycles, returns the masked affine formula.
ForwardAlwaysMasked ==
    (self.cls = "Connected" /\ lastOp = "call") => output = MaskedAffine(x)

\* C2 amended: a forward pass returns the masked affine formula whenever
\* every mask write before it has been followed by an update cycle.
ForwardMaskedWhenConstrained ==
    (self.cls = "Connected" /\ lastOp = "call" /\ stale = {})
        => output = MaskedAffine(x)

\* C2 witness: a forward pass on a nonzero input after pruning and an
\* update cycle.
ForwardMaskedWitness ==
    /\ self.cls = "Connected"
    /\ lastOp = "call"
    /\ stale = {}
    /\ \E e \in Entries : e[1] = "W" /\ Mask(e) = 0 /\ x[1][e[2]] # 0
    /\ \E e \in Entries : Mask(e) = 1 /\ Param(e) # 0

\* C9: the constraint is idempotent: applied again to the parameters an
\* update cycle has just constrained, it returns them unchanged, for the
\* weights and for the bias.
ConstraintIdempotent ==
    lastOp = "update" => (Wconstraint(self.W) = self.W /\ bconstraint(self.b) = self.b)

\* C9 witness: the constraint has run with some entries masked and some
\* entries left nonzero.
ConstraintIdempotentWitness ==
    /\ lastOp = "update"
    /\ \E e \in Entries : e[1] = "W" /\ Mask(e) = 0
    /\ \E e \in Entries : e[1] = "W" /\ Mask(e) = 1 /\ Param(e) # 0
    /\ \E e \in Entries : e[1] = "b" /\ Mask(e) = 1 /\ Param(e) # 0

(***************************************************************************)
(* EqlLayer                                                                *)
(***************************************************************************)
\* Python list indexing s[k]: 0-based, a negative k counts from the end,
\* IndexError outside -len(s)..len(s)-1.
PyIndexOk(s, k) == k >= -Len(s) /\ k < Len(s)

PyIndex(s, k) == IF k >= 0 THEN s[k + 1] ELSE s[Len(s) + k + 1]

\* A hypothesis-set function applied to one value.  A value is a pair
\* <<"num", n>>; sin of n is kept as the term <<"sin", n>>.
ApplyHyp(f, v) ==
    CASE f = "identity" -> <<"num", v>>
      [] f = "square" -> <<"num", v * v>>
      [] OTHER -> <<f, v>>

\* EqlLayer.__init__: stores nodeInfo, hypSet, unaryFunc and constructs the
\* Connected part with width u + 2v.
EqlLayerInit(obj, nodeInfo, hypSet, unaryFunc) ==
    ConnectedInit([obj EXCEPT !.nodeInfo = nodeInfo, !.hypSet = hypSet,
                              !.unaryFunc = unaryFunc],
                  nodeInfo[1] + 2 * nodeInfo[2], 0)

\* The list comprehension over range(u) evaluates without IndexError.
UnaryIndexOk ==
    \A i \in 0..(self.nodeInfo[1] - 1) :
        /\ PyIndexOk(self.unaryFunc, i)
        /\ PyIndexOk(self.hypSet, PyIndex(self.unaryFunc, i))

\* [self.hypSet[self.unaryFunc[i]](linOutput[:, i:i+1]) for i in range(u)]
UnaryOutputs(row) ==
    [k \in 1..self.nodeInfo[1] |->
        ApplyHyp(PyIndex(self.hypSet, PyIndex(self.unaryFunc, k - 1)), row[k])]

\* Faulty variant: the products taken from column 0 on, not from column u on.
ProductOutputsFromZero(row) ==
    [k \in 1..self.nodeInfo[2] |->
        LET i == 2 * (k - 1) IN <<"num", row[i + 1] * row[i + 2]>>]

\* [linOutput[:, i:i+1] * linOutput[:, i+1:i+2] for i in range(u, u+2*v, 2)]
ProductOutputs(row) ==
    [k \in 1..self.nodeInfo[2] |->
        LET i == self.nodeInfo[1] + 2 * (k - 1)
        IN <<"num", row[i + 1] * row[i + 2]>>]

\* EqlLayer.call: the Connected call, then the unary block followed by the
\* product block, concatenated along axis 1.
EqlCall(xx) ==
    LET lin == ConnectedCall(xx)
    IN IF ~UnaryIndexOk
       THEN [linOutput |-> lin.output, output |-> <<>>,
             losses |-> lin.losses, status |-> "IndexError"]
       ELSE [linOutput |-> lin.output,
             output |-> [r \in 1..Len(xx) |->
                            UnaryOutputs(lin.output[r]) \o ProductOutputs(lin.output[r])],
             losses |-> lin.losses, status |-> "ok"]

\* EqlLayer.compute_output_shape, second component.
EqlComputeOutputShape == self.nodeInfo[1] + self.nodeInfo[2]

\* The unaryFunc lists tried: every list of up to two candidate indices.
Assignments == UNION {Vectors(n, AssignVals) : n \in 0..2}

EqlForward ==
    /\ \E xx \in Batches(Len(self.W), {1}) :
          \E res \in {EqlCall(xx)} :
             /\ x' = xx
             /\ linOutput' = res.linOutput
             /\ output' = res.output
             /\ losses' = res.losses
             /\ status' = res.status
    /\ lastOp' = "call"
    /\ UNCHANGED <<self, args, stale>>

InitEql ==
    /\ \E ni \in NodeInfos, hs \in HypSets, uf \in Assignments, w \in HeadInputWidths :
          LET obj == EqlLayerInit([NoObject EXCEPT !.cls = "EqlLayer"], ni, hs, uf)
          IN /\ \E kernel \in Kernels(w, obj, ParamVals) :
                   self = ConnectedBuild(obj, kernel)
             /\ args = [outputShape |-> ni[1] + ni[2]]
    /\ x = <<>>
    /\ linOutput = <<>>
    /\ output = <<>>
    /\ losses = <<>>
    /\ status = "none"
    /\ lastOp = "build"
    /\ stale = {}

NextEql == EqlForward

SpecEql == InitEql /\ [][NextEql]_vars

(***************************************************************************)
(* DivLayer                                                                *)
(***************************************************************************)
\* The 1e-10 added to |denominators|: one unit of the division model.
Eps == 1

\* DivLayer.__init__: stores outputShape, threshold and loss, then constructs
\* the Connected part with outputShape*2, which stores self.outputShape again.
DivLayerInit(obj, outputShape, threshold, loss) ==
    ConnectedInit([obj EXCEPT !.outputShape = outputShape,
                              !.threshold = threshold, !.loss = loss],
                  outputShape * 2, 0)

\* linOutput[:, ::2]
Numerators(lin) ==
    [r \in 1..Len(lin) |-> [k \in 1..((Len(lin[r]) + 1) \div 2) |-> lin[r][2 * k - 1]]]

\* linOutput[:, 1::2]
Denominators(lin) ==
    [r \in 1..Len(lin) |-> [k \in 1..(Len(lin[r]) \div 2) |-> lin[r][2 * k]]]

\* Faulty variant: the gate taken on the absolute denominator.
GateAbs(d) == IF Abs(d) > self.threshold THEN 1 ELSE 0

\* tf.cast(denominators > self.threshold, tf.float32), one entry.
Gate(d) == IF d > self.threshold THEN 1 ELSE 0

\* tf.math.reciprocal(tf.abs(denominators) + 1e-10), one entry, as a quotient.
DenominatorInverse(d) == <<1, Abs(d) + Eps>>

\* numerators * denominatorsInverse * zeros, one entry, as a quotient.
Quotient(n, d) ==
    LET inv == DenominatorInverse(d)
    IN <<n * inv[1] * Gate(d), inv[2]>>

\* Faulty variant: the hinge taken on denominators - threshold.
DenominatorLossFlipped(dens) ==
    ReduceSum([r \in 1..Len(dens) |->
                  [k \in 1..Len(dens[r]) |-> Max(dens[r][k] - self.threshold, 0)]])

\* tf.reduce_sum(tf.maximum(self.threshold - denominators, zeros))
DenominatorLoss(dens) ==
    ReduceSum([r \in 1..Len(dens) |->
                  [k \in 1..Len(dens[r]) |-> Max(self.threshold - dens[r][k], 0)]])

\* DivLayer.call: the Connected call, the gated quotients, the denominator
\* loss and, when a loss callable was passed, its value on the output (kept
\* as the term <<"loss", output>>).
DivCall(xx) ==
    LET lin == ConnectedCall(xx)
        nums == Numerators(lin.output)
        dens == Denominators(lin.output)
        out == [r \in 1..Len(xx) |->
                   [k \in 1..Len(nums[r]) |-> Quotient(nums[r][k], dens[r][k])]]
    IN [linOutput |-> lin.output, output |-> out,
        losses |-> lin.losses \o <<DenominatorLoss(dens)>>
                      \o (IF self.loss # "None" THEN << <<"loss", out>> >> ELSE <<>>),
        status |-> "ok"]

\* DivLayer.compute_output_shape, second component.
DivComputeOutputShape == self.outputShape

DivForward ==
    /\ \E xx \in Batches(Len(self.W), 1..MaxBatch) :
          \E res \in {DivCall(xx)} :
             /\ x' = xx
             /\ linOutput' = res.linOutput
             /\ output' = res.output
             /\ losses' = res.losses
             /\ status' = res.status
    /\ lastOp' = "call"
    /\ UNCHANGED <<self, args, stale>>

InitDiv ==
    /\ \E o \in DivOutputShapes, t \in Thresholds, lf \in {"None", "custom"},
          w \in HeadInputWidths :
          LET obj == DivLayerInit([NoObject EXCEPT !.cls = "DivLayer"], o, t, lf)
          IN /\ \E kernel \in Kernels(w, obj, DivKernelVals) :
                   self = ConnectedBuild(obj, kernel)
             /\ args = [outputShape |-> o]
    /\ x = <<>>
    /\ linOutput = <<>>
    /\ output = <<>>
    /\ losses = <<>>
    /\ status = "none"
    /\ lastOp = "build"
    /\ stale = {}

NextDiv == DivForward

SpecDiv == InitDiv /\ [][NextDiv]_vars

(***************************************************************************)
(* EnergyConsReg                                                           *)
(***************************************************************************)
\* The caller's energyFunc on one predicted state: the sum of its
\* components, or the sum of their squares.
EnergyOf(f, row) ==
    IF f = "total"
    THEN SumSeq(row)
    ELSE SumSeq([i \in 1..Len(row) |-> row[i] * row[i]])

\* EnergyConsReg.__init__
EnergyConsRegInit(obj, energyFunc, energy, coef) ==
    [obj EXCEPT !.energyFunc = energyFunc, !.energy = energy, !.coef = coef]

\* Faulty variant: the energy error summed without its absolute value.
RegCallSigned(xx) ==
    self.coef * SumSeq([r \in 1..Len(xx) |->
                           EnergyOf(self.energyFunc, xx[r]) - self.energy])

\* EnergyConsReg.__call__
RegCall(xx) ==
    self.coef * SumSeq([r \in 1..Len(xx) |->
                           Abs(EnergyOf(self.energyFunc, xx[r]) - self.energy)])

RegForward ==
    /\ \E w \in RegStateWidths : \E xx \in Batches(w, 1..MaxBatch) :
          /\ x' = xx
          /\ output' = RegCall(xx)
    /\ lastOp' = "call"
    /\ status' = "ok"
    /\ UNCHANGED <<self, args, linOutput, losses, stale>>

InitReg ==
    /\ \E f \in EnergyFuncs, e \in Energies, c \in Coefs :
          self = EnergyConsRegInit([NoObject EXCEPT !.cls = "EnergyConsReg"], f, e, c)
    /\ args = NoArgs
    /\ x = <<>>
    /\ linOutput = <<>>
    /\ output = <<>>
    /\ losses = <<>>
    /\ status = "none"
    /\ lastOp = "init"
    /\ stale = {}

NextReg == RegForward

SpecReg == InitReg /\ [][NextReg]_vars

(***************************************************************************)
(* Claims about EqlLayer                                                   *)
(***************************************************************************)
\* Every unary slot has an assignment entry that is an index 0..len(hypSet)-1.
AssignmentInRange ==
    \A i \in 1..self.nodeInfo[1] :
        /\ i <= Len(self.unaryFunc)
        /\ self.unaryFunc[i] \in 0..(Len(self.hypSet) - 1)

OutOfRangeAssignmentRaises ==
    (/\ self.cls = "EqlLayer"
     /\ lastOp = "call"
     /\ \E i \in 1..self.nodeInfo[1] :
           /\ i <= Len(self.unaryFunc)
           /\ self.unaryFunc[i] \notin 0..(Len(self.hypSet) - 1))
        => (status = "IndexError" /\ output = <<>>)

(***************************************************************************)
(* Claims about DivLayer                                                   *)
(***************************************************************************)
\* C3: for every row and output channel k, with n and d the numerator and
\* denominator columns of the pair, the output is exactly 0 when
\* d <= threshold and is the quotient n / (|d| + eps) when d > threshold.
DivOutputGated ==
    (self.cls = "DivLayer" /\ lastOp = "call") =>
        \A r \in 1..Len(x) : \A k \in 1..Len(output[r]) :
            LET n == linOutput[r][2 * k - 1]
                d == linOutput[r][2 * k]
                q == output[r][k]
            IN /\ q[2] > 0
               /\ d <= self.threshold => q[1] = 0
               /\ d > self.threshold => q[1] * (Abs(d) + Eps) = n * q[2]

\* C3 witness: one forward pass has gated a negative denominator whose
\* magnitude exceeds a non-negative threshold, under a nonzero numerator,
\* and has returned a nonzero quotient for a denominator above threshold.
DivOutputGatedWitness ==
    /\ self.cls = "DivLayer"
    /\ lastOp = "call"
    /\ self.threshold >= 0
    /\ \E r \in 1..Len(x) : \E k \in 1..Len(output[r]) :
          /\ linOutput[r][2 * k] < -self.threshold
          /\ linOutput[r][2 * k - 1] # 0
          /\ output[r][k][1] = 0
    /\ \E r \in 1..Len(x) : \E k \in 1..Len(output[r]) :
          /\ linOutput[r][2 * k] > self.threshold
          /\ output[r][k][1] # 0

\* The entries of a matrix, row after row, as one sequence.
Flatten(m) == [k \in 1..(Len(m) * (IF m = <<>> THEN 0 ELSE Len(m[1]))) |->
                 m[((k - 1) \div Len(m[1])) + 1][((k - 1) % Len(m[1])) + 1]]

\* The denominator entries of the last forward pass, as one sequence.
CallDenominators ==
    Flatten([r \in 1..Len(linOutput) |->
                [k \in 1..(Len(linOutput[r]) \div 2) |-> linOutput[r][2 * k]]])

\* C7: the second loss a DivLayer forward pass registers is the sum over the
\* batch's denominators d of threshold - d where that is positive; it is 0
\* when every d exceeds the threshold and positive when some d is below it.
DivHingeLoss ==
    (self.cls = "DivLayer" /\ lastOp = "call") =>
        LET ds == CallDenominators
            t == self.threshold
        IN /\ Len(losses) >= 2
           /\ losses[2] = SumSeq([i \in 1..Len(ds) |->
                                     IF ds[i] < t THEN t - ds[i] ELSE 0])
           /\ (\A i \in 1..Len(ds) : ds[i] > t) => losses[2] = 0
           /\ (\E i \in 1..Len(ds) : ds[i] < t) => losses[2] > 0

\* C7 witness: a forward pass on a batch of two rows with one denominator
\* below and one above the threshold.
DivHingeLossWitness ==
    /\ self.cls = "DivLayer"
    /\ lastOp = "call"
    /\ Len(x) = 2
    /\ \E i \in 1..Len(CallDenominators) : CallDenominators[i] < self.threshold
    /\ \E i \in 1..Len(CallDenominators) : CallDenominators[i] > self.threshold
    /\ losses[2] > 0

\* C10: a DivLayer constructed with requested output width n declares width
\* n (compute_output_shape), returns n columns from its forward pass and
\* has a weight matrix of 2n columns.
DivDeclaredWidth ==
    self.cls = "DivLayer" =>
        /\ DivComputeOutputShape = args.outputShape
        /\ \A i \in 1..Len(self.W) : Len(self.W[i]) = 2 * args.outputShape
        /\ lastOp = "call" =>
              \A r \in 1..Len(x) : Len(output[r]) = args.outputShape

(***************************************************************************)
(* Configuration errors                                                    *)
(***************************************************************************)
\* The configuration is structurally valid: positive widths, and for an
\* EqlLayer a non-empty hypSet and one assignment per unary slot, for a
\* DivLayer a positive threshold.
ConfigValid ==
    CASE self.cls = "EqlLayer" ->
            /\ self.hypSet # <<>>
            /\ Len(self.unaryFunc) = self.nodeInfo[1]
            /\ self.outputShape > 0
      [] self.cls = "DivLayer" ->
            /\ self.threshold > 0
            /\ args.outputShape > 0
      [] OTHER -> self.outputShape > 0

\* C6: no forward pass of a structurally invalid layer returns an output.
InvalidConfigRejected ==
    (lastOp = "call" /\ status = "ok") => ConfigValid

(***************************************************************************)
(* Claims about EnergyConsReg                                              *)
(***************************************************************************)
\* The energy error of example r of the last call.
EnergyError(r) == EnergyOf(self.energyFunc, x[r]) - self.energy

\* C8: the regularizer returns coef times the summed magnitude of the
\* energy errors of the batch: 0 when every example has exactly the true
\* energy, and coef * |delta| when exactly one example is off by delta.
RegLossFormula ==
    (self.cls = "EnergyConsReg" /\ lastOp = "call") =>
        LET off == {r \in 1..Len(x) : EnergyError(r) # 0}
        IN /\ output = self.coef
                          * SumSeq([r \in 1..Len(x) |->
                                       IF EnergyError(r) >= 0
                                       THEN EnergyError(r)
                                       ELSE 0 - EnergyError(r)])
           /\ off = {} => output = 0
           /\ \A r \in 1..Len(x) :
                 off = {r} => output = self.coef * Abs(EnergyError(r))

\* C8 witness: a batch of two in which one example has the true energy and
\* the other falls short of it, under a nonzero coefficient.
RegLossFormulaWitness ==
    /\ self.cls = "EnergyConsReg"
    /\ lastOp = "call"
    /\ self.coef # 0
    /\ Len(x) = 2
    /\ \E r \in 1..2 : EnergyError(r) = 0
    /\ \E r \in 1..2 : EnergyError(r) < 0

====
